---- MODULE Spec2Model ----
(***************************************************************************)
(* A model of sort/tracker.py: the SORT multi-object tracker.              *)
(*                                                                         *)
(* Lists are Python lists / numpy rows; the model indexes them from 1     *)
(* where the code indexes them from 0.  Boxes have integer corners and an *)
(* IoU is the exact fraction <<intersection, union>>.  The Kalman filter  *)
(* arithmetic (filterpy) is not part of the repository: the velocities    *)
(* stay zero, so kf.predict() leaves [x,y,s,r] alone, and kf.update()     *)
(* replaces [x,y,s,r] by the observation unless s*r is already beyond the *)
(* largest float (a gain below one cannot bring such a state back).       *)
(* Floats are exact fractions, with NaN, an infinite value and a          *)
(* scaled-down largest finite value.                                      *)
(***************************************************************************)
EXTENDS Integers, Sequences, FiniteSets, TLC

(* ------------------------------ bounds -------------------------------- *)
MaxFrames == 4
MaxCount == 2
MaxDets == 2
MaxAgeArg == 2
MaxMinHitsArg == 3
MaxAssoc == 3

(* ------------------------------ inputs -------------------------------- *)
Instances == {1}

\* the largest finite float, scaled down
FloatMax == 99

BoxA == <<0, 0, 2, 1>>
BoxB == <<0, 0, 1, 1>>
BoxC == <<1, 0, 3, 1>>
\* a box of zero width, and a box whose squared width is beyond FloatMax
BoxZ == <<0, 0, 0, 1>>
BoxH == <<0, 0, 20, 1>>

\* a detection row [x1,y1,x2,y2,score,class_id]
Detections ==
    { [box |-> BoxA, score |-> 9, class_id |-> 1],
      [box |-> BoxB, score |-> 5, class_id |-> 2],
      [box |-> BoxC, score |-> 7, class_id |-> 1],
      [box |-> BoxZ, score |-> 5, class_id |-> 1],
      [box |-> BoxH, score |-> 5, class_id |-> 1] }

IouThresholds == { <<3, 10>> }

\* the inputs of associate_detections_to_trackers when it is applied alone
AssocBoxes == { BoxA, BoxB, BoxC }
AssocThresholds == { <<3, 10>>, <<1, 2>> }

(* ------------------------------ helpers ------------------------------- *)
Max(a, b) == IF a >= b THEN a ELSE b
Min(a, b) == IF a <= b THEN a ELSE b

SetMax(S) == CHOOSE x \in S : \A y \in S : y <= x

\* comparison of fractions <<n, d>> with d > 0
FracLT(p, q) == p[1] * q[2] < q[1] * p[2]
FracGT(p, q) == p[1] * q[2] > q[1] * p[2]
FracAdd(p, q) == << p[1] * q[2] + q[1] * p[2], p[2] * q[2] >>

\* the list of the values f[1], ..., f[Len(f)]
RECURSIVE ListFrom(_, _)
ListFrom(f, k) == IF k > Len(f) THEN << >> ELSE << f[k] >> \o ListFrom(f, k + 1)
List(f) == ListFrom(f, 1)

\* list.pop(i) with i counted from 1
pop(s, i) == SubSeq(s, 1, i - 1) \o SubSeq(s, i + 1, Len(s))

\* the elements of a set of pairs as a list in row-major order
RECURSIVE PairsInOrder(_)
PairsInOrder(S) ==
    IF S = {} THEN << >>
    ELSE LET m == CHOOSE p \in S :
                    \A q \in S : p[1] < q[1] \/ (p[1] = q[1] /\ p[2] <= q[2])
         IN  << m >> \o PairsInOrder(S \ {m})

Column(pairs, c) == { pairs[k][c] : k \in 1..Len(pairs) }

(* --------------------------- iou_batch -------------------------------- *)
iou(bb_test, bb_gt) ==
    LET xx1 == Max(bb_test[1], bb_gt[1])
        yy1 == Max(bb_test[2], bb_gt[2])
        xx2 == Min(bb_test[3], bb_gt[3])
        yy2 == Min(bb_test[4], bb_gt[4])
        w   == Max(0, xx2 - xx1)
        h   == Max(0, yy2 - yy1)
        wh  == w * h
    IN  << wh,
           (bb_test[3] - bb_test[1]) * (bb_test[4] - bb_test[2])
           + (bb_gt[3] - bb_gt[1]) * (bb_gt[4] - bb_gt[2])
           - wh >>

iou_batch(bb_test, bb_gt) ==
    [ d \in 1..Len(bb_test) |-> [ t \in 1..Len(bb_gt) |-> iou(bb_test[d], bb_gt[t]) ] ]

(* ------------------------- linear_assignment -------------------------- *)
\* the sets of pairs that assign every index of the smaller side once
Injections(m, n) ==
    { f \in [ 1..m -> 1..n ] : \A i, j \in 1..m : i # j => f[i] # f[j] }

Assignments(nd, nt) ==
    IF nd <= nt
    THEN { { << d, f[d] >> : d \in 1..nd } : f \in Injections(nd, nt) }
    ELSE { { << f[t], t >> : t \in 1..nt } : f \in Injections(nt, nd) }

RECURSIVE TotalIou(_, _)
TotalIou(S, iou_matrix) ==
    IF S = {} THEN << 0, 1 >>
    ELSE LET p == CHOOSE q \in S : TRUE
         IN  FracAdd(iou_matrix[p[1]][p[2]], TotalIou(S \ {p}, iou_matrix))

\* linear_sum_assignment(-iou_matrix): the assignments of least total cost,
\* as lists of pairs ordered by row; which one of several optima scipy
\* returns is not fixed by the repository
linear_assignment(iou_matrix, nd, nt) ==
    LET all == Assignments(nd, nt)
        total == [ S \in all |-> TotalIou(S, iou_matrix) ]
    IN  { PairsInOrder(S) : S \in
            { S \in all : \A S2 \in all : ~ FracGT(total[S2], total[S]) } }

(* ------------------ associate_detections_to_trackers ------------------ *)
\* a = (iou_matrix > iou_threshold)
Overlaps(iou_matrix, iou_threshold, nd, nt) ==
    { p \in (1..nd) \X (1..nt) : FracGT(iou_matrix[p[1]][p[2]], iou_threshold) }

\* a.sum(1).max() == 1 and a.sum(0).max() == 1
FastPath(a, nd, nt) ==
    /\ SetMax({ Cardinality({ p \in a : p[1] = d }) : d \in 1..nd }) = 1
    /\ SetMax({ Cardinality({ p \in a : p[2] = t }) : t \in 1..nt }) = 1

\* the candidate values of matched_indices
MatchedIndices(iou_matrix, iou_threshold, nd, nt) ==
    IF Min(nd, nt) > 0
    THEN LET a == Overlaps(iou_matrix, iou_threshold, nd, nt)
         IN  IF FastPath(a, nd, nt)
             THEN { PairsInOrder(a) }
             ELSE linear_assignment(iou_matrix, nd, nt)
    ELSE { << >> }

\* the test of the low-IoU filter on one matched pair
LowIou(v, iou_threshold) == FracLT(v, iou_threshold)

\* the filter loop over matched_indices[k..]; acc is
\* [matches, unmatched_detections, unmatched_trackers]
\* the filter loop that forgets the indices of a rejected pair
RECURSIVE FilterMatches_forget(_, _, _, _, _)
FilterMatches_forget(matched_indices, k, iou_matrix, iou_threshold, acc) ==
    IF k > Len(matched_indices) THEN acc
    ELSE LET m == matched_indices[k]
         IN  FilterMatches_forget(matched_indices, k + 1, iou_matrix,
                iou_threshold,
                IF FracLT(iou_matrix[m[1]][m[2]], iou_threshold)
                THEN acc
                ELSE [ acc EXCEPT !.matches = Append(@, m) ])

RECURSIVE FilterMatches(_, _, _, _, _)
FilterMatches(matched_indices, k, iou_matrix, iou_threshold, acc) ==
    IF k > Len(matched_indices) THEN acc
    ELSE LET m == matched_indices[k]
         IN  FilterMatches(matched_indices, k + 1, iou_matrix, iou_threshold,
                IF LowIou(iou_matrix[m[1]][m[2]], iou_threshold)
                THEN [ acc EXCEPT
                         !.unmatched_detections = Append(@, m[1]),
                         !.unmatched_trackers = Append(@, m[2]) ]
                ELSE [ acc EXCEPT !.matches = Append(@, m) ])

\* the result of the function for one value of matched_indices
AssociateWith(matched_indices, iou_matrix, iou_threshold, nd, nt) ==
    LET unmatched_detections ==
            SelectSeq(List([ d \in 1..nd |-> d ]),
                      LAMBDA d : d \notin Column(matched_indices, 1))
        unmatched_trackers ==
            SelectSeq(List([ t \in 1..nt |-> t ]),
                      LAMBDA t : t \notin Column(matched_indices, 2))
    IN  FilterMatches(matched_indices, 1, iou_matrix, iou_threshold,
            [ matches |-> << >>,
              unmatched_detections |-> unmatched_detections,
              unmatched_trackers |-> unmatched_trackers ])

\* the set of results of associate_detections_to_trackers
associate_detections_to_trackers(detections, trackers, iou_threshold) ==
    IF Len(trackers) = 0
    THEN { [ matches |-> << >>,
             unmatched_detections |-> List([ d \in 1..Len(detections) |-> d ]),
             unmatched_trackers |-> << >> ] }
    ELSE LET iou_matrix == iou_batch(detections, trackers)
             nd == Len(detections)
             nt == Len(trackers)
         IN  { AssociateWith(mi, iou_matrix, iou_threshold, nd, nt) :
                 mi \in MatchedIndices(iou_matrix, iou_threshold, nd, nt) }

\* the results of the function when the solver branch (line 199) is taken
\* whatever the boolean matrix is
GeneralPath(detections, trackers, iou_threshold) ==
    LET iou_matrix == iou_batch(detections, trackers)
        nd == Len(detections)
        nt == Len(trackers)
    IN  { AssociateWith(mi, iou_matrix, iou_threshold, nd, nt) :
            mi \in linear_assignment(iou_matrix, nd, nt) }

(* ------------------- convert_bbox_to_z / convert_x_to_bbox ------------- *)
\* [x,y,s,r] of a box: x2 and y2 are twice the centre, r the fraction w/h
convert_bbox_to_z(bbox) ==
    LET w == bbox[3] - bbox[1]
        h == bbox[4] - bbox[2]
    IN  [ x2 |-> 2 * bbox[1] + w, y2 |-> 2 * bbox[2] + h,
          s |-> w * h, r |-> << w, h >> ]

\* s * r of a state, beyond the largest float or not
Overflows(x) == x.r[2] # 0 /\ x.s * x.r[1] > FloatMax * x.r[2]

Sqrt(n) == CHOOSE v \in 0..n : v * v = n

\* the box of a state [x,y,s,r], with what its coordinates are:
\*   r = w/0 is infinite or NaN, and s * r is then NaN (s = 0);
\*   s * r = 0 gives w = 0 and h = s/w = 0/0, NaN;
\*   s * r beyond the largest float gives w infinite and h = s/w = 0;
\*   otherwise w = sqrt(s * r) and h = s/w
convert_x_to_bbox(x) ==
    IF x.r[2] = 0 \/ x.s * x.r[1] = 0 THEN [ k |-> "nan", box |-> << >> ]
    ELSE IF Overflows(x) THEN [ k |-> "inf", box |-> << >> ]
    ELSE LET w == Sqrt((x.s * x.r[1]) \div x.r[2])
             h == x.s \div w
         IN  [ k |-> "finite",
               box |-> << (x.x2 - w) \div 2, (x.y2 - h) \div 2,
                          (x.x2 + w) \div 2, (x.y2 + h) \div 2 >> ]

(* --------------------------- KalmanBoxTracker -------------------------- *)
VARIABLES
    count,          \* KalmanBoxTracker.count, a class attribute
    constructed,    \* per SortTracker(): "no", "ok" or "error"
    max_age, min_hits, iou_threshold, trackers, frame_count,
    ret,            \* per SortTracker: the value of the last update() call
    obs,            \* per SortTracker: what the last update() call did
    hist,           \* per KalmanBoxTracker object: its life so far
    assoc_in,       \* arguments of associate_detections_to_trackers alone
    assoc_out       \* its result

vars == << count, constructed, max_age, min_hits, iou_threshold, trackers,
           frame_count, ret, obs, hist, assoc_in, assoc_out >>

\* self.kf.update(z) on the state x
kf_update(x, z) == IF Overflows(x) THEN x ELSE z

\* the constructor that counts the creating detection as a first hit
KalmanBoxTracker_init_one(bbox, conf, cls, cnt, obj) ==
    [ kf |-> convert_bbox_to_z(bbox), time_since_update |-> 0, id |-> cnt,
      hits |-> 0, hit_streak |-> 1, age |-> 0, conf |-> conf, cls |-> cls,
      obj |-> obj ]

\* KalmanBoxTracker.__init__ when the class counter is cnt; obj is the
\* identity of the new Python object
KalmanBoxTracker_init(bbox, conf, cls, cnt, obj) ==
    [ kf |-> convert_bbox_to_z(bbox), time_since_update |-> 0, id |-> cnt,
      hits |-> 0, hit_streak |-> 0, age |-> 0, conf |-> conf, cls |-> cls,
      obj |-> obj ]

\* update() that also forgets the confidence of the track
KalmanBoxTracker_update_conf(trk, bbox) ==
    [ trk EXCEPT !.time_since_update = 0,
                 !.hits = @ + 1,
                 !.hit_streak = @ + 1,
                 !.conf = 0,
                 !.kf = kf_update(@, convert_bbox_to_z(bbox)) ]

KalmanBoxTracker_update(trk, bbox) ==
    [ trk EXCEPT !.time_since_update = 0,
                 !.hits = @ + 1,
                 !.hit_streak = @ + 1,
                 !.kf = kf_update(@, convert_bbox_to_z(bbox)) ]

\* predict() that never resets hit_streak
KalmanBoxTracker_predict_keep(trk) ==
    [ trk EXCEPT !.age = @ + 1, !.time_since_update = @ + 1 ]

\* predict() that resets hit_streak one frame later
KalmanBoxTracker_predict_late(trk) ==
    [ trk EXCEPT !.age = @ + 1,
                 !.hit_streak = IF trk.time_since_update > 1 THEN 0 ELSE @,
                 !.time_since_update = @ + 1 ]

\* predict() that does not count the cycle in age
KalmanBoxTracker_predict_noage(trk) ==
    [ trk EXCEPT !.hit_streak = IF trk.time_since_update > 0 THEN 0 ELSE @,
                 !.time_since_update = @ + 1 ]

\* the track after predict(); its return value is get_state of that track
KalmanBoxTracker_predict(trk) ==
    [ trk EXCEPT !.age = @ + 1,
                 !.hit_streak = IF trk.time_since_update > 0 THEN 0 ELSE @,
                 !.time_since_update = @ + 1 ]

get_state(trk) == convert_x_to_bbox(trk.kf)

(* ----------------------------- SortTracker ---------------------------- *)
\* np.any(np.isnan(pos))
AnyIsNan(pos) == pos.k = "nan"

\* np.ma.masked_invalid masks NaN and infinite entries
MaskedInvalid(pos) == pos.k \in {"nan", "inf"}

\* np.ma.compress_rows(np.ma.masked_invalid(tracks)), as a list of boxes
CompressRows(tracks) ==
    LET kept == SelectSeq(tracks, LAMBDA pos : ~ MaskedInvalid(pos))
    IN  List([ t \in 1..Len(kept) |-> kept[t].box ])

\* the objects whose predictions are the rows that compress_rows keeps
RowObjs(trks, tracks) ==
    LET kept == SelectSeq(List([ t \in 1..Len(tracks) |-> t ]),
                          LAMBDA t : ~ MaskedInvalid(tracks[t]))
    IN  List([ t \in 1..Len(kept) |-> trks[kept[t]].obj ])

\* to_del after the predict loop
ToDel(tracks) ==
    SelectSeq(List([ t \in 1..Len(tracks) |-> t ]),
              LAMBDA t : AnyIsNan(tracks[t]))

\* for t in reversed(to_del): self.trackers.pop(t), from to_del[k] down
RECURSIVE PopToDel(_, _, _)
PopToDel(trks, to_del, k) ==
    IF k < 1 THEN trks ELSE PopToDel(pop(trks, to_del[k]), to_del, k - 1)

\* the update loop that calls update() twice on a matched track
RECURSIVE UpdateMatched_twice(_, _, _, _)
UpdateMatched_twice(trks, dets, matched, k) ==
    IF k > Len(matched) THEN trks
    ELSE UpdateMatched_twice(
            [ trks EXCEPT ![matched[k][2]] =
                KalmanBoxTracker_update(
                    KalmanBoxTracker_update(@, dets[matched[k][1]].box),
                    dets[matched[k][1]].box) ],
            dets, matched, k + 1)

\* for m in matched: self.trackers[m[1]].update(dets[m[0], :]), from matched[k]
RECURSIVE UpdateMatched(_, _, _, _)
UpdateMatched(trks, dets, matched, k) ==
    IF k > Len(matched) THEN trks
    ELSE UpdateMatched(
            [ trks EXCEPT ![matched[k][2]] =
                KalmanBoxTracker_update(@, dets[matched[k][1]].box) ],
            dets, matched, k + 1)

\* the creation loop with a class counter that is never incremented
RECURSIVE CreateTrackers_samecount(_, _, _, _)
CreateTrackers_samecount(st, dets, unmatched_dets, k) ==
    IF k > Len(unmatched_dets) THEN st
    ELSE LET det == dets[unmatched_dets[k]]
             trk == [ kf |-> convert_bbox_to_z(det.box),
                      time_since_update |-> 0, id |-> st.count, hits |-> 0,
                      hit_streak |-> 0, age |-> 0, conf |-> det.score,
                      cls |-> det.class_id, obj |-> st.nobj + 1 ]
         IN  CreateTrackers_samecount(
                [ trackers |-> Append(st.trackers, trk),
                  count |-> st.count,
                  nobj |-> st.nobj + 1 ],
                dets, unmatched_dets, k + 1)

\* for i in unmatched_dets: self.trackers.append(KalmanBoxTracker(...)),
\* from unmatched_dets[k]; st is [trackers, count, nobj]
RECURSIVE CreateTrackers(_, _, _, _)
CreateTrackers(st, dets, unmatched_dets, k) ==
    IF k > Len(unmatched_dets) THEN st
    ELSE LET det == dets[unmatched_dets[k]]
             trk == KalmanBoxTracker_init(det.box, det.score, det.class_id,
                                          st.count, st.nobj + 1)
         IN  CreateTrackers(
                [ trackers |-> Append(st.trackers, trk),
                  count |-> st.count + 1,
                  nobj |-> st.nobj + 1 ],
                dets, unmatched_dets, k + 1)

\* the report test that does not look at time_since_update
Reported_unseen(trk, fc, mh) == trk.hit_streak >= mh \/ fc <= mh

\* the report test that also takes a track one frame after its match
Reported_stale(trk, fc, mh) ==
    /\ trk.time_since_update <= 1
    /\ (trk.hit_streak >= mh \/ fc <= mh)

\* the report test with a warm-up window one frame shorter
Reported_short(trk, fc, mh) ==
    /\ trk.time_since_update < 1
    /\ (trk.hit_streak >= mh \/ fc < mh)

\* the test that puts a track into the report
Reported(trk, fc, mh) ==
    /\ trk.time_since_update < 1
    /\ (trk.hit_streak >= mh \/ fc <= mh)

\* the removal test that lets a track live one frame longer
Dead_late(trk, ma) == trk.time_since_update > ma + 1

\* the removal test that removes a track one frame early
Dead_early(trk, ma) == trk.time_since_update >= ma

\* the test that removes a dead tracklet
Dead(trk, ma) == trk.time_since_update > ma

\* one row of the report: [x1,y1,x2,y2], id + 1, cls, conf
Row(trk) ==
    [ d |-> get_state(trk), track_id |-> trk.id + 1, cls |-> trk.cls,
      conf |-> trk.conf ]

\* the pass that pops at the index before it is decremented
RECURSIVE ReportLoop_shift(_, _, _, _, _, _)
ReportLoop_shift(st, it, i, fc, mh, ma) ==
    IF it < 1 \/ it > Len(st.trackers) THEN st
    ELSE LET trk == st.trackers[it]
             ret1 == IF Reported(trk, fc, mh)
                     THEN Append(st.ret, Row(trk)) ELSE st.ret
             trks1 == IF Dead(trk, ma) THEN pop(st.trackers, i)
                      ELSE st.trackers
         IN  ReportLoop_shift([ trackers |-> trks1, ret |-> ret1 ],
                              it - 1, i - 1, fc, mh, ma)

\* for trk in reversed(self.trackers): ...; it is the position of the
\* reversed iterator, i the index the code keeps by hand; st is
\* [trackers, ret]
RECURSIVE ReportLoop(_, _, _, _, _, _)
ReportLoop(st, it, i, fc, mh, ma) ==
    IF it < 1 \/ it > Len(st.trackers) THEN st
    ELSE LET trk == st.trackers[it]
             ret1 == IF Reported(trk, fc, mh)
                     THEN Append(st.ret, Row(trk)) ELSE st.ret
             trks1 == IF Dead(trk, ma) THEN pop(st.trackers, i - 1)
                      ELSE st.trackers
         IN  ReportLoop([ trackers |-> trks1, ret |-> ret1 ],
                        it - 1, i - 1, fc, mh, ma)

Objs(trks) == { trks[t].obj : t \in 1..Len(trks) }
Range(s) == { s[k] : k \in 1..Len(s) }

NoObs ==
    [ before |-> {}, nan |-> {}, inf |-> {}, dropped |-> << >>,
      updated |-> << >>, created |-> << >>, mid |-> << >>,
      ndets |-> 0, matched |-> << >> ]

\* the life of an object after a call in which it was live at some point
HistAfter(h, obj, upd, crt, final) ==
    IF obj \notin final
    THEN [ h EXCEPT !.live = FALSE, !.consec = 0, !.misses = 0 ]
    ELSE IF obj \in upd
         THEN [ h EXCEPT !.consec = @ + 1, !.misses = 0 ]
         ELSE IF obj \in crt THEN h
              ELSE [ h EXCEPT !.consec = 0, !.misses = @ + 1 ]

\* the constructor that clamps a negative argument to 0
SortTracker_init_clamp(o, ma, mh, thr) ==
    /\ constructed[o] = "no"
    /\ constructed' = [ constructed EXCEPT ![o] = "ok" ]
    /\ max_age' = [ max_age EXCEPT ![o] = Max(ma, 0) ]
    /\ min_hits' = [ min_hits EXCEPT ![o] = Max(mh, 0) ]
    /\ iou_threshold' = [ iou_threshold EXCEPT ![o] = thr ]
    /\ UNCHANGED << count, trackers, frame_count, ret, obs, hist,
                    assoc_in, assoc_out >>

SortTracker_init(o, ma, mh, thr) ==
    /\ constructed[o] = "no"
    /\ IF ma >= 0 /\ mh >= 0
       THEN /\ constructed' = [ constructed EXCEPT ![o] = "ok" ]
            /\ max_age' = [ max_age EXCEPT ![o] = ma ]
            /\ min_hits' = [ min_hits EXCEPT ![o] = mh ]
            /\ iou_threshold' = [ iou_threshold EXCEPT ![o] = thr ]
       ELSE /\ constructed' = [ constructed EXCEPT ![o] = "error" ]
            /\ UNCHANGED << max_age, min_hits, iou_threshold >>
    /\ UNCHANGED << count, trackers, frame_count, ret, obs, hist,
                    assoc_in, assoc_out >>

\* the part of update() up to the association: the predict loop, the
\* compression of the rows and the pops of to_del
Predicted(trks) ==
    LET after ==
            List([ t \in 1..Len(trks) |-> KalmanBoxTracker_predict(trks[t]) ])
        tracks == List([ t \in 1..Len(trks) |-> get_state(after[t]) ])
        to_del == ToDel(tracks)
    IN  [ pos |-> tracks,
          tracks |-> CompressRows(tracks),
          rows |-> RowObjs(after, tracks),
          dropped |-> List([ k \in 1..Len(to_del) |-> after[to_del[k]] ]),
          trackers |-> PopToDel(after, to_del, Len(to_del)) ]

\* the objects of trks whose predicted box is of kind k
ObjsOfKind(trks, pos, k) ==
    { trks[t].obj : t \in { u \in 1..Len(trks) : pos[u].k = k } }

SortTracker_update(o, dets) ==
    /\ constructed[o] = "ok"
    /\ frame_count[o] < MaxFrames
    /\ Len(hist) + Len(dets) - Len(trackers[o]) <= MaxCount
    /\ \E fc \in { frame_count[o] + 1 } :
       \E p \in { Predicted(trackers[o]) } :
       \E assoc \in associate_detections_to_trackers(
                       List([ d \in 1..Len(dets) |-> dets[d].box ]),
                       p.tracks, iou_threshold[o]) :
       \E updated \in { UpdateMatched(p.trackers, dets, assoc.matches, 1) } :
       \E made \in { CreateTrackers(
                        [ trackers |-> updated, count |-> count,
                          nobj |-> Len(hist) ],
                        dets, assoc.unmatched_detections, 1) } :
       \E done \in { ReportLoop(
                        [ trackers |-> made.trackers, ret |-> << >> ],
                        Len(made.trackers), Len(made.trackers) + 1,
                        fc, min_hits[o], max_age[o]) } :
       \E upd \in { List([ k \in 1..Len(assoc.matches) |->
                             p.trackers[assoc.matches[k][2]].obj ]) } :
       \E crt \in { List([ k \in 1..(made.nobj - Len(hist)) |->
                             Len(hist) + k ]) } :
       \E hist1 \in { hist \o
                      List([ k \in 1..Len(crt) |->
                          [ id |-> made.trackers[Len(updated) + k].id,
                            owner |-> o, live |-> TRUE,
                            consec |-> 0, misses |-> 0 ] ]) } :
         /\ Len(hist1) <= MaxCount
         /\ frame_count' = [ frame_count EXCEPT ![o] = fc ]
         /\ trackers' = [ trackers EXCEPT ![o] = done.trackers ]
         /\ count' = made.count
         /\ ret' = [ ret EXCEPT ![o] = done.ret ]
         /\ obs' = [ obs EXCEPT ![o] =
                [ before |-> Objs(trackers[o]),
                  nan |-> ObjsOfKind(trackers[o], p.pos, "nan"),
                  inf |-> ObjsOfKind(trackers[o], p.pos, "inf"),
                  dropped |-> p.dropped,
                  updated |-> upd, created |-> crt, mid |-> made.trackers,
                  ndets |-> Len(dets),
                  matched |-> List([ k \in 1..Len(assoc.matches) |->
                                       p.rows[assoc.matches[k][2]] ]) ] ]
         /\ hist' = List([ ob \in 1..Len(hist1) |->
                        IF ob \in Objs(trackers[o]) \cup Range(crt)
                        THEN HistAfter(hist1[ob], ob, Range(upd), Range(crt),
                                       Objs(done.trackers))
                        ELSE hist1[ob] ])
    /\ UNCHANGED << constructed, max_age, min_hits, iou_threshold,
                    assoc_in, assoc_out >>

SeqsUpTo(S, n) == UNION { { List(f) : f \in [ 1..k -> S ] } : k \in 0..n }

NoCall == [ detections |-> << >>, trackers |-> << >>,
            iou_threshold |-> << 0, 1 >> ]
NoResult == [ done |-> FALSE, matches |-> << >>,
              unmatched_detections |-> << >>, unmatched_trackers |-> << >> ]

Fresh ==
    /\ count = 0
    /\ constructed = [ o \in Instances |-> "no" ]
    /\ max_age = [ o \in Instances |-> 0 ]
    /\ min_hits = [ o \in Instances |-> 0 ]
    /\ iou_threshold = [ o \in Instances |-> << 0, 1 >> ]
    /\ trackers = [ o \in Instances |-> << >> ]
    /\ frame_count = [ o \in Instances |-> 0 ]
    /\ ret = [ o \in Instances |-> << >> ]
    /\ obs = [ o \in Instances |-> NoObs ]
    /\ hist = << >>

Init ==
    /\ Fresh
    /\ assoc_in = NoCall
    /\ assoc_out = NoResult

Construct ==
    \E o \in Instances, ma \in -1..MaxAgeArg, mh \in -1..MaxMinHitsArg,
       thr \in IouThresholds :
        SortTracker_init(o, ma, mh, thr)

Update ==
    \E o \in Instances :
        \E dets \in SeqsUpTo(Detections, MaxDets) :
            SortTracker_update(o, dets)

Next == Construct \/ Update

Spec == Init /\ [][Next]_vars

(* ------- associate_detections_to_trackers applied to any arguments ----- *)
InitAssoc ==
    /\ Fresh
    /\ assoc_in \in [ detections : SeqsUpTo(AssocBoxes, MaxAssoc),
                      trackers : SeqsUpTo(AssocBoxes, MaxAssoc),
                      iou_threshold : AssocThresholds ]
    /\ assoc_out = NoResult

Associate ==
    /\ ~ assoc_out.done
    /\ \E r \in associate_detections_to_trackers(
                    assoc_in.detections, assoc_in.trackers,
                    assoc_in.iou_threshold) :
          assoc_out' = [ done |-> TRUE, matches |-> r.matches,
                         unmatched_detections |-> r.unmatched_detections,
                         unmatched_trackers |-> r.unmatched_trackers ]
    /\ UNCHANGED << count, constructed, max_age, min_hits, iou_threshold,
                    trackers, frame_count, ret, obs, hist, assoc_in >>

NextAssoc == Associate

SpecAssoc == InitAssoc /\ [][NextAssoc]_vars

(* ----------------------- two SortTracker objects ----------------------- *)
\* two orchestrators of one process, with one choice of parameters each
Pair == {1, 2}
PairDetections == { [box |-> BoxA, score |-> 9, class_id |-> 1] }

InitPair ==
    /\ count = 0
    /\ constructed = [ o \in Pair |-> "no" ]
    /\ max_age = [ o \in Pair |-> 0 ]
    /\ min_hits = [ o \in Pair |-> 0 ]
    /\ iou_threshold = [ o \in Pair |-> << 0, 1 >> ]
    /\ trackers = [ o \in Pair |-> << >> ]
    /\ frame_count = [ o \in Pair |-> 0 ]
    /\ ret = [ o \in Pair |-> << >> ]
    /\ obs = [ o \in Pair |-> NoObs ]
    /\ hist = << >>
    /\ assoc_in = NoCall
    /\ assoc_out = NoResult

ConstructPair ==
    \E o \in Pair, ma \in {0, 1}, thr \in IouThresholds :
        SortTracker_init(o, ma, 1, thr)

UpdatePair ==
    \E o \in Pair :
        \E dets \in SeqsUpTo(PairDetections, MaxDets) :
            SortTracker_update(o, dets)

NextPair == ConstructPair \/ UpdatePair

SpecPair == InitPair /\ [][NextPair]_vars

(* ------------------------------ properties ----------------------------- *)
Ok(o) == constructed[o] = "ok"
RetIds(o) == { ret[o][k].track_id : k \in 1..Len(ret[o]) }
Live(o) == Range(trackers[o])
Mid(o) == Range(obs[o].mid)
Occ(s, v) == Cardinality({ k \in 1..Len(s) : s[k] = v })

\* the tracks that the rule of the report selects, after association and
\* creation in the last call
Due(o) ==
    { trk \in Mid(o) :
        /\ trk.time_since_update < 1
        /\ (trk.hit_streak >= min_hits[o] \/ frame_count[o] <= min_hits[o]) }

\* C1: a track has a row in the report of a call iff, after association
\* and creation in that call, its time_since_update < 1 and its hit_streak
\* >= min_hits or frame_count <= min_hits; the row has track_id = id + 1
C1_ReportRule ==
    \A o \in Instances : Ok(o) =>
        /\ Len(ret[o]) = Cardinality(Due(o))
        /\ \A trk \in Mid(o) : trk \in Due(o) <=> trk.id + 1 \in RetIds(o)

C1_Witness ==
    \E o \in Instances :
        /\ Ok(o) /\ frame_count[o] > min_hits[o]
        /\ Due(o) # {} /\ Due(o) # Mid(o)

\* C2: in a call with frame_count <= min_hits every track created or
\* matched in the call is reported, whatever its hit_streak
C2_WarmUp ==
    \A o \in Instances : (Ok(o) /\ frame_count[o] <= min_hits[o]) =>
        \A ob \in Range(obs[o].updated) \cup Range(obs[o].created) :
            hist[ob].id + 1 \in RetIds(o)

\* min_hits = 3: a track created in frame 1 and matched in frames 2 and 3
\* is in the report of frame 3 with a hit_streak of 2
C2_Witness ==
    \E o \in Instances :
        /\ Ok(o) /\ min_hits[o] = 3 /\ frame_count[o] = 3
        /\ \E trk \in Live(o) :
            /\ trk.age = 2 /\ trk.hits = 2 /\ trk.hit_streak < min_hits[o]
            /\ trk.obj \in Range(obs[o].updated)
            /\ trk.id + 1 \in RetIds(o)

\* C3: after the warm-up window, with min_hits >= 1, the tracks in the
\* report are those matched in this call and in at least min_hits
\* consecutive calls up to it; a track created in the call is not reported
C3_StreakNeeded ==
    \A o \in Instances :
        (Ok(o) /\ frame_count[o] > min_hits[o] /\ min_hits[o] >= 1) =>
            /\ \A ob \in 1..Len(hist) :
                  hist[ob].id + 1 \in RetIds(o) =>
                      hist[ob].live /\ hist[ob].consec >= min_hits[o]
            /\ \A ob \in Range(obs[o].created) :
                  hist[ob].id + 1 \notin RetIds(o)
            /\ \A ob \in Range(obs[o].updated) :
                  hist[ob].consec >= min_hits[o] =>
                      hist[ob].id + 1 \in RetIds(o)

\* a track created after the warm-up window is in the report in the call
\* of its min_hits-th consecutive match
C3_Witness ==
    \E o \in Instances :
        /\ Ok(o) /\ min_hits[o] >= 1
        /\ \E trk \in Live(o) :
            /\ trk.age = min_hits[o] /\ trk.hits = min_hits[o]
            /\ hist[trk.obj].consec = min_hits[o]
            /\ frame_count[o] - trk.age > min_hits[o]
            /\ trk.id + 1 \in RetIds(o)

\* C4: no live track has gone max_age + 1 calls without a match, a
\* reported track was matched or created in the call, and the id of a
\* removed track is never the id of a live or reported track again
C4_TrackDeath ==
    \A o \in Instances : Ok(o) =>
        /\ \A trk \in Live(o) : hist[trk.obj].misses <= max_age[o]
        /\ \A k \in 1..Len(ret[o]) :
              \E trk \in Live(o) :
                  /\ trk.id + 1 = ret[o][k].track_id
                  /\ hist[trk.obj].misses = 0
        /\ \A ob \in 1..Len(hist) :
              ~ hist[ob].live =>
                  /\ hist[ob].id + 1 \notin RetIds(o)
                  /\ \A trk \in Live(o) : trk.id # hist[ob].id

\* a track dies of age in a call that reports another track
C4_Witness ==
    \E o \in Instances :
        /\ Ok(o) /\ max_age[o] >= 1 /\ Len(ret[o]) >= 1
        /\ \E ob \in obs[o].before \ obs[o].nan : ~ hist[ob].live

\* C5: the id of a track is the value of the class counter at its
\* creation and never changes, the counter is the number of tracks ever
\* created, and no two tracks ever created share an id
C5_UniqueStableIds ==
    /\ count = Len(hist)
    /\ \A a, b \in 1..Len(hist) : a # b => hist[a].id # hist[b].id
    /\ \A o \in Instances : \A trk \in Live(o) : trk.id = hist[trk.obj].id

C5_Witness ==
    /\ \E ob \in 1..Len(hist) : ~ hist[ob].live
    /\ \E o \in Instances : \E trk \in Live(o) :
          trk.id >= 1 /\ trk.hits >= 1 /\ trk.age > trk.hits

\* C6 as stated: for every live track after a call, time_since_update > 0
\* implies hit_streak = 0
C6_Exclusive ==
    \A o \in Instances : \A trk \in Live(o) :
        trk.time_since_update > 0 => trk.hit_streak = 0

\* C6 amended: for every live track after a call, time_since_update > 1
\* implies hit_streak = 0
C6_ExclusiveAfterTwo ==
    \A o \in Instances : \A trk \in Live(o) :
        trk.time_since_update > 1 => trk.hit_streak = 0

\* a track that was matched and then missed two calls in a row
C6_Witness ==
    \E o \in Instances : \E trk \in Live(o) :
        trk.time_since_update > 1 /\ trk.hits >= 1

\* C7: in the result of associate_detections_to_trackers every detection
\* index is once in matches or unmatched_detections, every track index is
\* once in matches or unmatched_trackers, and nothing else is in them
C7_Partition ==
    assoc_out.done =>
        LET nd == Len(assoc_in.detections)
            nt == Len(assoc_in.trackers)
            m == assoc_out.matches
        IN  /\ \A d \in 1..nd :
                  Cardinality({ k \in 1..Len(m) : m[k][1] = d })
                  + Occ(assoc_out.unmatched_detections, d) = 1
            /\ \A t \in 1..nt :
                  Cardinality({ k \in 1..Len(m) : m[k][2] = t })
                  + Occ(assoc_out.unmatched_trackers, t) = 1
            /\ Len(m) + Len(assoc_out.unmatched_detections) = nd
            /\ Len(m) + Len(assoc_out.unmatched_trackers) = nt

\* the solver path with one pair kept and one pair rejected
C7_Witness ==
    /\ assoc_out.done
    /\ Len(assoc_out.matches) >= 1
    /\ \E d \in Range(assoc_out.unmatched_detections),
          t \in Range(assoc_out.unmatched_trackers) :
          FracGT(iou(assoc_in.detections[d], assoc_in.trackers[t]), << 0, 1 >>)

\* C8 as stated: every pair in matches has an IoU strictly greater than
\* the threshold
C8_StrictlyAbove ==
    assoc_out.done =>
        \A k \in 1..Len(assoc_out.matches) :
            FracGT(iou(assoc_in.detections[assoc_out.matches[k][1]],
                       assoc_in.trackers[assoc_out.matches[k][2]]),
                   assoc_in.iou_threshold)

\* C9 as stated: a track whose prediction has a NaN or infinite coordinate
\* is not live when the call returns
C9_DegenerateRemoved ==
    \A o \in Instances : Ok(o) =>
        \A ob \in obs[o].nan \cup obs[o].inf : ob \notin Objs(trackers[o])

\* C10 as stated: after a call no live track has time_since_update >
\* max_age and every track removed in the call had time_since_update >
\* max_age
C10_OnlyByAge ==
    \A o \in Instances : Ok(o) =>
        /\ \A trk \in Live(o) : trk.time_since_update <= max_age[o]
        /\ \A trk \in Mid(o) :
              trk.obj \notin Objs(trackers[o]) =>
                  trk.time_since_update > max_age[o]
        /\ \A trk \in Range(obs[o].dropped) :
              trk.time_since_update > max_age[o]

\* C10 amended: the tracks removed in a call are those whose prediction
\* has a NaN and those whose time_since_update exceeds max_age; after the
\* call no live track has time_since_update > max_age
C10_ByAgeOrNan ==
    \A o \in Instances : Ok(o) =>
        /\ \A trk \in Live(o) : trk.time_since_update <= max_age[o]
        /\ \A trk \in Mid(o) :
              trk.obj \notin Objs(trackers[o]) <=>
                  trk.time_since_update > max_age[o]
        /\ (obs[o].before \cup Range(obs[o].created)) \ Objs(obs[o].mid)
              = obs[o].nan

\* one track is removed for its age while another stays at max_age
C10_Witness ==
    \E o \in Instances :
        /\ Ok(o) /\ max_age[o] >= 1
        /\ \E trk \in Mid(o) : trk.obj \notin Objs(trackers[o])
        /\ \E trk \in Live(o) : trk.time_since_update = max_age[o]

\* the step is an update() call on o
Called(o) == frame_count'[o] # frame_count[o]

\* the track of the list trks that is the object ob
TrackOf(trks, ob) == CHOOSE trk \in Range(trks) : trk.obj = ob

\* C11: update() with no detection creates no track, returns an empty
\* report, adds one to frame_count and adds one unmatched frame to every
\* track that stays live (the others are removed); on a fresh orchestrator
\* the live set stays empty
C11_EmptyFrame ==
    [][ \A o \in Instances : (Called(o) /\ obs'[o].ndets = 0) =>
          /\ frame_count'[o] = frame_count[o] + 1
          /\ ret'[o] = << >>
          /\ obs'[o].created = << >> /\ obs'[o].updated = << >>
          /\ count' = count
          /\ Len(hist') = Len(hist)
          /\ Objs(trackers'[o]) \subseteq Objs(trackers[o])
          /\ (trackers[o] = << >> => trackers'[o] = << >>)
          /\ \A trk \in Live(o) :
                trk.obj \in Objs(trackers'[o]) =>
                    LET aged == TrackOf(trackers'[o], trk.obj)
                    IN  /\ aged.time_since_update = trk.time_since_update + 1
                        /\ aged.age = trk.age + 1
                        /\ aged.hits = trk.hits
                        /\ aged.kf = trk.kf
                        /\ hist'[trk.obj].misses = hist[trk.obj].misses + 1
    ]_vars

\* an empty frame in which a matched track stays live, one frame older
C11_Witness ==
    \E o \in Instances :
        /\ Ok(o) /\ frame_count[o] >= 2 /\ obs[o].ndets = 0
        /\ \E trk \in Live(o) : trk.hits >= 1 /\ trk.time_since_update >= 1

\* the number of tracks that o created before the object ob
Earlier(o, ob) == Cardinality({ a \in 1..(ob - 1) : hist[a].owner = o })

\* C12 as stated: the ids of the tracks of one SortTracker are those it
\* has when no other SortTracker is used, the numbers 0, 1, ... in the
\* order of creation, so a row of a report has track_id = 1 + the number
\* of tracks that this SortTracker created before
C12_OwnCounter ==
    \A o \in Pair : Ok(o) =>
        /\ \A ob \in 1..Len(hist) :
              hist[ob].owner = o => hist[ob].id = Earlier(o, ob)
        /\ \A trk \in Live(o) :
              trk.id + 1 \in RetIds(o) => trk.id = Earlier(o, trk.obj)

C14_FixedAtCreation ==
    /\ [] \A o \in Instances : \A trk \in Live(o) :
            (trk.age = 0 /\ Ok(o)) =>
                \E det \in Detections :
                    /\ trk.conf = det.score /\ trk.cls = det.class_id
                    /\ trk.kf = convert_bbox_to_z(det.box)
    /\ [][ \A o \in Instances : \A trk \in Live(o) :
             /\ trk.obj \in Objs(trackers'[o]) =>
                   LET later == TrackOf(trackers'[o], trk.obj)
                   IN  /\ later.cls = trk.cls /\ later.conf = trk.conf
                       /\ later.id = trk.id
             /\ Called(o) =>
                   \A k \in 1..Len(ret'[o]) :
                       ret'[o][k].track_id = trk.id + 1 =>
                           /\ ret'[o][k].cls = trk.cls
                           /\ ret'[o][k].conf = trk.conf
       ]_vars

\* a track created from the detection of BoxA (score 9, class 1), matched
\* to the detection of BoxB (score 5, class 2) and reported
C14_Witness ==
    \E o \in Instances : \E trk \in Live(o) :
        /\ trk.hits >= 1 /\ trk.time_since_update = 0
        /\ trk.kf = convert_bbox_to_z(BoxB)
        /\ trk.conf = 9 /\ trk.cls = 1
        /\ \E k \in 1..Len(ret[o]) :
              /\ ret[o][k].track_id = trk.id + 1
              /\ ret[o][k].conf = 9 /\ ret[o][k].cls = 1

\* the fast path was taken: some entry of the IoU matrix is above the
\* threshold, and at most one in every row and in every column
TookFastPath ==
    LET nd == Len(assoc_in.detections)
        nt == Len(assoc_in.trackers)
    IN  /\ assoc_out.done /\ nd > 0 /\ nt > 0
        /\ FastPath(Overlaps(iou_batch(assoc_in.detections, assoc_in.trackers),
                             assoc_in.iou_threshold, nd, nt), nd, nt)

\* C15 as stated: when the fast path is taken, every result that the
\* solver followed by the filter can give for the same arguments has the
\* same matches, unmatched detections and unmatched tracks as the result
\* returned
C15_FastPathIsShortcut ==
    TookFastPath =>
        \A g \in GeneralPath(assoc_in.detections, assoc_in.trackers,
                             assoc_in.iou_threshold) :
            /\ Range(g.matches) = Range(assoc_out.matches)
            /\ Range(g.unmatched_detections)
                  = Range(assoc_out.unmatched_detections)
            /\ Range(g.unmatched_trackers)
                  = Range(assoc_out.unmatched_trackers)

\* C16: in a call, one track is created for every detection that is not
\* in a match and none for the others; every track that was live before
\* the call is predicted once (age + 1) and updated once if it is in a
\* match and not at all otherwise (hits + 1 or hits); a track created in
\* the call is neither predicted nor updated (age = hits = 0)
C16_OncePerFrame ==
    [][ \A o \in Instances : Called(o) =>
          LET now == obs'[o]
              seen == Range(now.mid) \cup Range(now.dropped)
          IN  /\ Len(now.created) = now.ndets - Len(now.updated)
              /\ count' = count + Len(now.created)
              /\ \A a, b \in 1..Len(now.updated) :
                    a # b => now.updated[a] # now.updated[b]
              /\ Range(now.updated) \subseteq Objs(trackers[o])
              /\ Len(now.mid) + Len(now.dropped)
                    = Len(trackers[o]) + Len(now.created)
              /\ \A trk \in Live(o) :
                    \E after \in seen :
                        /\ after.obj = trk.obj
                        /\ after.age = trk.age + 1
                        /\ after.hits = IF trk.obj \in Range(now.updated)
                                        THEN trk.hits + 1 ELSE trk.hits
              /\ \A ob \in Range(now.created) :
                    /\ ob \notin Objs(trackers[o])
                    /\ \E new \in Range(now.mid) :
                          /\ new.obj = ob /\ new.age = 0 /\ new.hits = 0
                          /\ new.time_since_update = 0 /\ new.hit_streak = 0
    ]_vars

\* a call with two detections: one matched to a track, one that creates a
\* track
C16_Witness ==
    \E o \in Instances :
        /\ Ok(o) /\ obs[o].ndets = 2
        /\ Len(obs[o].updated) = 1 /\ Len(obs[o].created) = 1

\* C17 as stated: in every call, for every match the track that receives
\* the detection is the track whose prediction is the matched row of the
\* association input
C17_Aligned ==
    \A o \in Instances : Ok(o) => obs[o].updated = obs[o].matched

\* C18 as stated: a track created on frame 1 and matched on every later
\* frame has hit_streak = frame_count after every call
C18_StreakIsFrame ==
    \A o \in Instances : \A trk \in Live(o) :
        (trk.age = frame_count[o] - 1 /\ trk.hits = trk.age) =>
            trk.hit_streak = frame_count[o]

\* C18 amended: hit_streak is the number of consecutive calls up to the
\* last one in which the track was matched, the call that created it not
\* counted: a track created on frame 1 and matched on every later frame
\* has hit_streak = n - 1 after frame n; after one call without a match
\* hit_streak is still what it was, and it is 0 after the predict() of
\* the next call
C18_StreakIsMatches ==
    \A o \in Instances : \A trk \in Live(o) :
        /\ (trk.age = frame_count[o] - 1 /\ trk.hits = trk.age) =>
              trk.hit_streak = frame_count[o] - 1
        /\ hist[trk.obj].misses = 0 => trk.hit_streak = hist[trk.obj].consec
        /\ hist[trk.obj].misses >= 2 => trk.hit_streak = 0
        /\ (trk.time_since_update = 0 /\ trk.hits >= 1) => trk.hit_streak >= 1

\* a track created on frame 1 and matched on frames 2 and 3, after frame 3
C18_Witness ==
    \E o \in Instances : \E trk \in Live(o) :
        /\ frame_count[o] = 3 /\ trk.age = 2 /\ trk.hits = 2
        /\ trk.hit_streak = 2

\* C19: for every live track after any calls, 0 <= hit_streak <= hits <=
\* age and 0 <= time_since_update <= age
C19_CounterOrder ==
    \A o \in Instances : \A trk \in Live(o) :
        /\ 0 <= trk.hit_streak /\ trk.hit_streak <= trk.hits
        /\ trk.hits <= trk.age
        /\ 0 <= trk.time_since_update /\ trk.time_since_update <= trk.age

\* a track that was matched, lost its streak and was matched again
C19_Witness ==
    \E o \in Instances : \E trk \in Live(o) :
        /\ 0 < trk.hit_streak /\ trk.hit_streak < trk.hits
        /\ trk.hits < trk.age

\* C20: the track_ids of a report are positive and pairwise distinct,
\* every reported track is live when the call returns, and the reverse
\* pass visits every track once: the live list after the call is the list
\* before the pass without the tracks whose time_since_update exceeds
\* max_age, in the same order, and the report has one row for each track
\* that passes the report test, last track first
C20_ReversePass ==
    \A o \in Instances : Ok(o) =>
        /\ \A k \in 1..Len(ret[o]) : ret[o][k].track_id >= 1
        /\ \A a, b \in 1..Len(ret[o]) :
              a # b => ret[o][a].track_id # ret[o][b].track_id
        /\ \A k \in 1..Len(ret[o]) :
              \E trk \in Live(o) :
                  /\ ret[o][k] = Row(trk)
                  /\ trk.time_since_update <= max_age[o]
        /\ trackers[o] =
              SelectSeq(obs[o].mid,
                        LAMBDA trk : trk.time_since_update <= max_age[o])
        /\ LET due == SelectSeq(obs[o].mid, LAMBDA trk : trk \in Due(o))
           IN  /\ Len(ret[o]) = Len(due)
               /\ \A k \in 1..Len(due) :
                     ret[o][k] = Row(due[Len(due) + 1 - k])

\* a pass that removes the last track of the list and, after it, reports
\* an earlier one
C20_Witness ==
    \E o \in Instances :
        /\ Ok(o) /\ Len(ret[o]) >= 1
        /\ \E dead \in Mid(o) :
              /\ dead.obj \notin Objs(trackers[o])
              /\ \E trk \in Live(o) :
                    /\ trk.obj < dead.obj
                    /\ trk.id + 1 \in RetIds(o)

====
